---- MODULE Spec2Model ----
(***************************************************************************)
(* Model of src/app/main.py: class SystemsEngineeringandAssuranceProgram.  *)
(*                                                                         *)
(* The object holds the loaded dataset (self.data), which no method        *)
(* changes.  Every public method is one action that computes the method's  *)
(* return value (or the exception it raises) from the dataset and the      *)
(* arguments.  Strings that the code only copies are TLA+ strings; date    *)
(* strings, which the code parses and compares, are sequences of           *)
(* one-character strings.                                                  *)
(***************************************************************************)
EXTENDS Integers, Sequences, FiniteSets, TLC

VARIABLES data, op, args, result, raised

vars == <<data, op, args, result, raised>>

(***************************************************************************)
(* Sequences                                                               *)
(***************************************************************************)
RECURSIVE Concat(_)
Concat(ss) == IF ss = <<>> THEN <<>> ELSE Head(ss) \o Concat(Tail(ss))

Range(s) == {s[i] : i \in DOMAIN s}

SeqsUpTo(S, n) == UNION {[1..k -> S] : k \in 0..n}

(***************************************************************************)
(* Characters and strings of characters                                    *)
(***************************************************************************)
Digits == {"0", "1", "2", "3", "4", "5", "6", "7", "8", "9"}

\* code point of a character (the characters a date string is made of)
Ord(c) ==
    CASE c = " " -> 32 [] c = "-" -> 45
      [] c = "0" -> 48 [] c = "1" -> 49 [] c = "2" -> 50 [] c = "3" -> 51
      [] c = "4" -> 52 [] c = "5" -> 53 [] c = "6" -> 54 [] c = "7" -> 55
      [] c = "8" -> 56 [] c = "9" -> 57

DigitVal(c) == Ord(c) - 48

\* str.__lt__: lexicographic order by code point
RECURSIVE StrLess(_, _)
StrLess(a, b) ==
    IF b = <<>> THEN FALSE
    ELSE IF a = <<>> THEN TRUE
    ELSE IF Ord(Head(a)) # Ord(Head(b)) THEN Ord(Head(a)) < Ord(Head(b))
    ELSE StrLess(Tail(a), Tail(b))

\* sorted(rows, key=lambda x: x[key], reverse=reverse): a stable sort.  With
\* reverse=True rows of equal key keep their original order as well.
\* KeyLess is the order of the key values: str for "date", int otherwise.
KeyLess(x, y, key) ==
    IF key = "date" THEN StrLess(x[key], y[key]) ELSE x[key] < y[key]

Before(x, y, key, reverse) ==
    IF reverse THEN KeyLess(y, x, key) ELSE KeyLess(x, y, key)

\* InsertSorted puts x after every element that is not ordered after it.
RECURSIVE InsertSorted(_, _, _, _)
InsertSorted(x, s, key, reverse) ==
    IF s = <<>> THEN <<x>>
    ELSE IF Before(x, s[Len(s)], key, reverse)
         THEN InsertSorted(x, SubSeq(s, 1, Len(s) - 1), key, reverse) \o <<s[Len(s)]>>
         ELSE s \o <<x>>

\* mutant: reverse=True done by reversing the ascending result, which puts
\* rows of equal key in reverse order
RECURSIVE sorted_ReversedAfter(_, _, _)
sorted_ReversedAfter(s, key, reverse) ==
    IF s = <<>> THEN <<>>
    ELSE IF reverse
    THEN LET asc == sorted_ReversedAfter(s, key, FALSE)
         IN  [n \in 1..Len(asc) |-> asc[Len(asc) + 1 - n]]
    ELSE InsertSorted(s[Len(s)], sorted_ReversedAfter(SubSeq(s, 1, Len(s) - 1), key, FALSE),
                      key, FALSE)

RECURSIVE sorted(_, _, _)
sorted(s, key, reverse) ==
    IF s = <<>> THEN <<>>
    ELSE InsertSorted(s[Len(s)], sorted(SubSeq(s, 1, Len(s) - 1), key, reverse),
                      key, reverse)

(***************************************************************************)
(* datetime: [date |-> proleptic Gregorian ordinal, time |-> second of day]*)
(***************************************************************************)
IsLeap(y) == (y % 4 = 0) /\ ((y % 100 # 0) \/ (y % 400 = 0))

DaysInMonth(y, m) ==
    IF m = 2 THEN (IF IsLeap(y) THEN 29 ELSE 28)
    ELSE IF m \in {4, 6, 9, 11} THEN 30 ELSE 31

DaysBeforeYear(y) ==
    (y - 1) * 365 + ((y - 1) \div 4) - ((y - 1) \div 100) + ((y - 1) \div 400)

RECURSIVE DaysBeforeMonth(_, _)
DaysBeforeMonth(y, m) ==
    IF m = 1 THEN 0 ELSE DaysBeforeMonth(y, m - 1) + DaysInMonth(y, m - 1)

ToOrdinal(y, m, d) == DaysBeforeYear(y) + DaysBeforeMonth(y, m) + d

\* datetime.__lt__ and __le__
DtLess(a, b) == a.date < b.date \/ (a.date = b.date /\ a.time < b.time)

DtLessEq(a, b) == a = b \/ DtLess(a, b)

\* (a - b).days: timedelta normalises to 0 <= seconds < 86400, so days is
\* the floor of the difference
DeltaDays(a, b) ==
    IF a.time >= b.time THEN a.date - b.date ELSE a.date - b.date - 1

(***************************************************************************)
(* parse_date: datetime.strptime(date_str, "%Y-%m-%d").  The format is the *)
(* regular expression \d\d\d\d-(1[0-2]|0[1-9]|[1-9])-(3[01]|[12]\d|0[1-9]| *)
(* [1-9]| [1-9]) matched against the whole string, followed by the range   *)
(* check of the day against the month.  Failure is the value ValueError.   *)
(***************************************************************************)
MonthToken(t) ==
    \/ Len(t) = 1 /\ t[1] \in Digits \ {"0"}
    \/ Len(t) = 2 /\ t[1] = "0" /\ t[2] \in Digits \ {"0"}
    \/ Len(t) = 2 /\ t[1] = "1" /\ t[2] \in {"0", "1", "2"}

DayToken(t) ==
    \/ Len(t) = 1 /\ t[1] \in Digits \ {"0"}
    \/ Len(t) = 2 /\ t[1] \in {"0", " "} /\ t[2] \in Digits \ {"0"}
    \/ Len(t) = 2 /\ t[1] \in {"1", "2"} /\ t[2] \in Digits
    \/ Len(t) = 2 /\ t[1] = "3" /\ t[2] \in {"0", "1"}

RECURSIVE TokenVal(_)
TokenVal(t) ==
    IF t = <<>> THEN 0
    ELSE IF t[Len(t)] = " " THEN 0
    ELSE TokenVal(SubSeq(t, 1, Len(t) - 1)) * 10 + DigitVal(t[Len(t)])

\* the (year, month token, day token) split of a string the format matches
DateFields(s) ==
    LET dashes == {k \in 6..Len(s) : s[k] = "-"}
        k      == CHOOSE x \in dashes : \A z \in dashes : x <= z
    IN  [y |-> TokenVal(SubSeq(s, 1, 4)),
         m |-> SubSeq(s, 6, k - 1),
         d |-> SubSeq(s, k + 1, Len(s))]

\* TRUE iff strptime returns a datetime for s (it raises ValueError otherwise)
DateAccepted(s) ==
    /\ Len(s) >= 8
    /\ \A i \in 1..4 : s[i] \in Digits
    /\ s[5] = "-"
    /\ \E k \in 6..Len(s) : s[k] = "-"
    /\ MonthToken(DateFields(s).m)
    /\ DayToken(DateFields(s).d)
    /\ DateFields(s).y >= 1
    /\ TokenVal(DateFields(s).d) <= DaysInMonth(DateFields(s).y, TokenVal(DateFields(s).m))

\* the datetime strptime returns for an accepted string: midnight of the day
parse_date(s) ==
    LET f == DateFields(s)
    IN  [date |-> ToOrdinal(f.y, TokenVal(f.m), TokenVal(f.d)), time |-> 0]

(***************************************************************************)
(* The dataset, self.data: json.load keeps the order of the keys, so a     *)
(* mapping is a sequence of [key, value] entries with distinct keys.       *)
(*   top level : [key, value], value = [kind |-> "dict", portions] for a   *)
(*               station, [kind |-> "str", portions |-> <<>>] for a string *)
(*               value such as the one of "$schema"                        *)
(*   portion   : [key, stages]                                             *)
(*   stage     : [name, start, end, status, milestones]                    *)
(*   milestone : [name, date, status]                                      *)
(***************************************************************************)
Keys(d) == {d[i].key : i \in DOMAIN d}

Lookup(d, k) == d[CHOOSE i \in DOMAIN d : d[i].key = k].value

\* the outcome of a call: the value returned, or the exception raised
Returns(v) == [raised |-> "", value |-> v]

Raises(e) == [raised |-> e, value |-> <<>>]

\* The loop "for station, station_data in self.data.items(): if station ==
\* "$schema": continue; for portion, portion_data in station_data.items():
\* for stage in portion_data["stages"]" as the sequence of its iterations.
\* A string value has no items(): the loop raises AttributeError when it
\* comes to it, which is the item [bad |-> TRUE].
PortionItems(station, p) ==
    [g \in 1..Len(p.stages) |->
        [bad |-> FALSE, station |-> station, portion |-> p.key, stage |-> p.stages[g]]]

EntryItems(e) ==
    IF e.key = "$schema" THEN <<>>
    ELSE IF e.value.kind # "dict" THEN <<[bad |-> TRUE]>>
    ELSE Concat([j \in 1..Len(e.value.portions) |->
                    PortionItems(e.key, e.value.portions[j])])

StageItems(d) == Concat([i \in 1..Len(d) |-> EntryItems(d[i])])

\* The outcome of a loop whose iterations yield per[i] = [err, rows]: the
\* first failing iteration raises, otherwise the rows are appended in order.
Collect(per) ==
    LET failing == {i \in DOMAIN per : per[i].err # ""}
    IN  IF failing # {}
        THEN Raises(per[CHOOSE i \in failing : \A j \in failing : i <= j].err)
        ELSE Returns(Concat([i \in DOMAIN per |-> per[i].rows]))

(***************************************************************************)
(* get_all_portions                                                        *)
(***************************************************************************)
get_all_portions(d) ==
    Collect([i \in 1..Len(d) |->
        IF d[i].key = "$schema" THEN [err |-> "", rows |-> <<>>]
        ELSE IF d[i].value.kind # "dict" THEN [err |-> "AttributeError", rows |-> <<>>]
        ELSE [err |-> "",
              rows |-> [j \in 1..Len(d[i].value.portions) |->
                           <<d[i].key, d[i].value.portions[j].key>>]]])

(***************************************************************************)
(* query_status_by_station                                                 *)
(***************************************************************************)
\* completed / total * 100, kept as the exact fraction num/den; the literal
\* 0 of the code is 0/1
Percent(completed, total) ==
    IF total > 0 THEN [num |-> completed * 100, den |-> total]
    ELSE [num |-> 0, den |-> 1]

CompletedCount(stages) ==
    Cardinality({g \in 1..Len(stages) : stages[g].status = "completed"})

StageSnapshot(stage) ==
    [name |-> stage.name, status |-> stage.status,
     start |-> stage.start, end |-> stage.end]

PortionInfo(p) ==
    [portion  |-> p.key,
     stages   |-> [g \in 1..Len(p.stages) |-> StageSnapshot(p.stages[g])],
     progress |-> Percent(CompletedCount(p.stages), Len(p.stages))]

RECURSIVE SumSeq(_)
SumSeq(s) == IF s = <<>> THEN 0 ELSE Head(s) + SumSeq(Tail(s))

\* mutant: completed_stages is reset for every portion, so that it ends as
\* the count of the last one
query_status_by_station_ResetPerPortion(d, station) ==
    IF station \notin Keys(d) \/ station = "$schema"
    THEN Returns([error |-> "Station " \o station \o " not found"])
    ELSE IF Lookup(d, station).kind # "dict" THEN Raises("AttributeError")
    ELSE LET ps               == Lookup(d, station).portions
             total_stages     == SumSeq([j \in 1..Len(ps) |-> Len(ps[j].stages)])
             completed_stages == IF ps = <<>> THEN 0
                                 ELSE CompletedCount(ps[Len(ps)].stages)
         IN  Returns([station  |-> station,
                      portions |-> [j \in 1..Len(ps) |-> PortionInfo(ps[j])],
                      overall_progress |-> Percent(completed_stages, total_stages)])

query_status_by_station(d, station) ==
    IF station \notin Keys(d) \/ station = "$schema"
    THEN Returns([error |-> "Station " \o station \o " not found"])
    ELSE IF Lookup(d, station).kind # "dict" THEN Raises("AttributeError")
    ELSE LET ps               == Lookup(d, station).portions
             total_stages     == SumSeq([j \in 1..Len(ps) |-> Len(ps[j].stages)])
             completed_stages == SumSeq([j \in 1..Len(ps) |-> CompletedCount(ps[j].stages)])
         IN  Returns([station  |-> station,
                      portions |-> [j \in 1..Len(ps) |-> PortionInfo(ps[j])],
                      overall_progress |-> Percent(completed_stages, total_stages)])

(***************************************************************************)
(* query_milestones_by_date_range                                          *)
(***************************************************************************)
MilestoneHit(it, m) ==
    [station |-> it.station, portion |-> it.portion, stage |-> it.stage.name,
     milestone |-> m.name, date |-> m.date, status |-> m.status]

\* mutant: the range excludes its end
InRange_EndExcluded(start, milestone_date, end) ==
    DtLessEq(start, milestone_date) /\ DtLess(milestone_date, end)

InRange(start, milestone_date, end) ==
    DtLessEq(start, milestone_date) /\ DtLessEq(milestone_date, end)

MilestoneRows(it, start, end) ==
    IF it.bad THEN [err |-> "AttributeError", rows |-> <<>>]
    ELSE LET ms == it.stage.milestones
         IN  IF \E k \in 1..Len(ms) : ~DateAccepted(ms[k].date)
             THEN [err |-> "ValueError", rows |-> <<>>]
             ELSE [err |-> "",
                   rows |-> Concat([k \in 1..Len(ms) |->
                       IF InRange(start, parse_date(ms[k].date), end)
                       THEN <<MilestoneHit(it, ms[k])>> ELSE <<>>])]

query_milestones_by_date_range(d, start_date, end_date) ==
    IF ~DateAccepted(start_date) \/ ~DateAccepted(end_date)
    THEN Raises("ValueError")
    ELSE LET items == StageItems(d)
             found == Collect([i \in 1..Len(items) |->
                         MilestoneRows(items[i], parse_date(start_date),
                                       parse_date(end_date))])
         IN  IF found.raised # "" THEN found
             ELSE Returns(sorted(found.value, "date", FALSE))

(***************************************************************************)
(* check_delays: ref_date is datetime.now() when no reference date is      *)
(* passed, parse_date(reference_date) otherwise.                           *)
(***************************************************************************)
DelayRecord(it, ref_date) ==
    [station |-> it.station, portion |-> it.portion, stage |-> it.stage.name,
     planned_end |-> it.stage.end, current_status |-> it.stage.status,
     days_overdue |-> DeltaDays(ref_date, parse_date(it.stage.end))]

\* mutant: the comparison with the reference date is not strict
IsDelay_NotStrict(stage, ref_date) ==
    DtLessEq(parse_date(stage.end), ref_date) /\ stage.status # "completed"

IsDelay(stage, ref_date) ==
    DtLess(parse_date(stage.end), ref_date) /\ stage.status # "completed"

DelayRows(it, ref_date) ==
    IF it.bad THEN [err |-> "AttributeError", rows |-> <<>>]
    ELSE IF ~DateAccepted(it.stage.end) THEN [err |-> "ValueError", rows |-> <<>>]
    ELSE [err |-> "",
          rows |-> IF IsDelay(it.stage, ref_date)
                   THEN <<DelayRecord(it, ref_date)>> ELSE <<>>]

delays_at(d, ref_date) ==
    LET items == StageItems(d)
        found == Collect([i \in 1..Len(items) |-> DelayRows(items[i], ref_date)])
    IN  IF found.raised # "" THEN found
        ELSE Returns(sorted(found.value, "days_overdue", TRUE))

\* reference_date is the string passed, or <<>> for None
check_delays(d, reference_date, now) ==
    IF reference_date = <<>> THEN delays_at(d, now)
    ELSE IF ~DateAccepted(reference_date) THEN Raises("ValueError")
    ELSE delays_at(d, parse_date(reference_date))

(***************************************************************************)
(* get_critical_path                                                       *)
(***************************************************************************)
CriticalItem(it) ==
    [station |-> it.station, portion |-> it.portion, stage |-> it.stage.name,
     duration_days |-> DeltaDays(parse_date(it.stage.end), parse_date(it.stage.start)),
     start |-> it.stage.start, end |-> it.stage.end, status |-> it.stage.status]

CriticalRows(it) ==
    IF it.bad THEN [err |-> "AttributeError", rows |-> <<>>]
    ELSE IF ~DateAccepted(it.stage.start) \/ ~DateAccepted(it.stage.end)
    THEN [err |-> "ValueError", rows |-> <<>>]
    ELSE [err |-> "", rows |-> <<CriticalItem(it)>>]

get_critical_path(d) ==
    LET items == StageItems(d)
        found == Collect([i \in 1..Len(items) |-> CriticalRows(items[i])])
    IN  IF found.raised # "" THEN found
        ELSE Returns(sorted(found.value, "duration_days", TRUE))

(***************************************************************************)
(* visualize_roadmap (save_path = None).  y_pos counts half rows, so that  *)
(* "y_pos += 1" adds 2 and "y_pos += 0.5" adds 1.  The figure returned is  *)
(* the record of what the code hands to plotly: the tick labels and their  *)
(* positions, the bar traces, the milestone trace, the legend (the names   *)
(* of the traces with showlegend=True, in trace order) and the TODAY line. *)
(***************************************************************************)
status_colors(status) ==
    CASE status = "completed"   -> "#2ecc71"
      [] status = "in_progress" -> "#3498db"
      [] status = "planned"     -> "#95a5a6"
      [] status = "delayed"     -> "#e74c3c"
      [] OTHER                  -> "#95a5a6"

\* first loop: all_dates
AllDatesRows(it) ==
    IF it.bad THEN [err |-> "AttributeError", rows |-> <<>>]
    ELSE IF ~DateAccepted(it.stage.start) \/ ~DateAccepted(it.stage.end)
    THEN [err |-> "ValueError", rows |-> <<>>]
    ELSE [err |-> "", rows |-> <<parse_date(it.stage.start), parse_date(it.stage.end)>>]

MinDate(ds) == CHOOSE x \in Range(ds) : \A z \in Range(ds) : DtLessEq(x, z)

MaxDate(ds) == CHOOSE x \in Range(ds) : \A z \in Range(ds) : DtLessEq(z, x)

\* second loop, the body for one stage: its bar and its milestones' markers
GanttRow(station, p, stage, y_pos) ==
    [Task |-> "  " \o p.key, Start |-> stage.start, Finish |-> stage.end,
     Status |-> stage.status, Station |-> station, Portion |-> p.key,
     Stage |-> stage.name, y_pos |-> y_pos]

MilestoneRow(station, p, stage, m, y_pos) ==
    [name |-> m.name, date |-> m.date, status |-> m.status,
     task |-> "  " \o p.key, station |-> station, portion |-> p.key,
     stage |-> stage.name, y_pos |-> y_pos]

\* mutant: the counter is not advanced after a portion
RECURSIVE LayoutPortions_NoAdvance(_, _, _, _)
LayoutPortions_NoAdvance(station, ps, j, y_pos) ==
    IF j > Len(ps)
    THEN [y_labels |-> <<>>, gantt_data |-> <<>>, milestone_data |-> <<>>,
          y_pos |-> y_pos]
    ELSE LET p    == ps[j]
             rest == LayoutPortions_NoAdvance(station, ps, j + 1, y_pos)
         IN  [y_labels |-> <<"  " \o p.key>> \o rest.y_labels,
              gantt_data |->
                 [g \in 1..Len(p.stages) |-> GanttRow(station, p, p.stages[g], y_pos)]
                 \o rest.gantt_data,
              milestone_data |->
                 Concat([g \in 1..Len(p.stages) |->
                    [k \in 1..Len(p.stages[g].milestones) |->
                        MilestoneRow(station, p, p.stages[g],
                                     p.stages[g].milestones[k], y_pos)]])
                 \o rest.milestone_data,
              y_pos |-> rest.y_pos]

\* second loop, the portions of one station from the j-th on
RECURSIVE LayoutPortions(_, _, _, _)
LayoutPortions(station, ps, j, y_pos) ==
    IF j > Len(ps)
    THEN [y_labels |-> <<>>, gantt_data |-> <<>>, milestone_data |-> <<>>,
          y_pos |-> y_pos]
    ELSE LET p    == ps[j]
             rest == LayoutPortions(station, ps, j + 1, y_pos + 2)
         IN  [y_labels |-> <<"  " \o p.key>> \o rest.y_labels,
              gantt_data |->
                 [g \in 1..Len(p.stages) |-> GanttRow(station, p, p.stages[g], y_pos)]
                 \o rest.gantt_data,
              milestone_data |->
                 Concat([g \in 1..Len(p.stages) |->
                    [k \in 1..Len(p.stages[g].milestones) |->
                        MilestoneRow(station, p, p.stages[g],
                                     p.stages[g].milestones[k], y_pos)]])
                 \o rest.milestone_data,
              y_pos |-> rest.y_pos]

\* second loop, the top-level entries from the i-th on.  The first loop has
\* raised already when an entry other than "$schema" is not a mapping.
RECURSIVE LayoutStations(_, _, _)
LayoutStations(d, i, y_pos) ==
    IF i > Len(d)
    THEN [y_labels |-> <<>>, gantt_data |-> <<>>, milestone_data |-> <<>>]
    ELSE IF d[i].key = "$schema" THEN LayoutStations(d, i + 1, y_pos)
    ELSE LET own  == LayoutPortions(d[i].key, d[i].value.portions, 1, y_pos + 2)
             rest == LayoutStations(d, i + 1, own.y_pos + 1)
         IN  [y_labels |-> <<"[" \o d[i].key \o "]">> \o own.y_labels \o rest.y_labels,
              gantt_data |-> own.gantt_data \o rest.gantt_data,
              milestone_data |-> own.milestone_data \o rest.milestone_data]

\* the bar trace of the t-th task; showlegend is "Status not in
\* legend_statuses", the statuses of the tasks before it
BarTrace(gantt_data, t) ==
    LET task == gantt_data[t]
    IN  [name |-> task.Status, legendgroup |-> task.Status,
         showlegend |-> \A u \in 1..(t - 1) : gantt_data[u].Status # task.Status,
         fillcolor |-> status_colors(task.Status),
         x0 |-> parse_date(task.Start), x1 |-> parse_date(task.Finish),
         y_center |-> task.y_pos, Task |-> task.Task, Stage |-> task.Stage,
         Portion |-> task.Portion, Station |-> task.Station]

\* the single "Milestones" trace, added only "if milestone_data"
MilestoneTrace(milestone_data) ==
    [name |-> "Milestones", showlegend |-> TRUE,
     x |-> [k \in 1..Len(milestone_data) |-> parse_date(milestone_data[k].date)],
     y |-> [k \in 1..Len(milestone_data) |-> milestone_data[k].y_pos],
     text |-> [k \in 1..Len(milestone_data) |-> milestone_data[k].name]]

Legend(traces) ==
    Concat([t \in 1..Len(traces) |->
               IF traces[t].showlegend THEN <<traces[t].name>> ELSE <<>>])

visualize_roadmap(d, today) ==
    LET items == StageItems(d)
        dates == Collect([i \in 1..Len(items) |-> AllDatesRows(items[i])])
    IN  IF dates.raised # "" THEN dates
        ELSE IF dates.value = <<>> THEN Raises("ValueError")
        ELSE LET lay  == LayoutStations(d, 1, 0)
                 bars == [t \in 1..Len(lay.gantt_data) |-> BarTrace(lay.gantt_data, t)]
                 mks  == IF lay.milestone_data # <<>>
                         THEN <<MilestoneTrace(lay.milestone_data)>> ELSE <<>>
             IN  IF \E k \in 1..Len(lay.milestone_data) :
                        ~DateAccepted(lay.milestone_data[k].date)
                 THEN Raises("ValueError")
                 ELSE Returns(
                    [y_labels |-> lay.y_labels,
                     tickvals |-> [n \in 1..Len(lay.y_labels) |-> n],
                     gantt_data |-> lay.gantt_data,
                     milestone_data |-> lay.milestone_data,
                     bars |-> bars,
                     milestones |-> mks,
                     legend |-> Legend(bars) \o Legend(mks),
                     min_date |-> MinDate(dates.value),
                     max_date |-> MaxDate(dates.value),
                     today_line |-> DtLessEq(MinDate(dates.value), today)
                                    /\ DtLessEq(today, MaxDate(dates.value))])

(***************************************************************************)
(* Datasets.  A dataset is built from a shape (the top-level keys, which   *)
(* of them are mappings, how many portions each has), the stages placed in *)
(* the portions and the milestones placed in the stages.  Portions, stages *)
(* and milestones are named by their position within their parent.         *)
(***************************************************************************)
MaxStages == 2

MaxMilestones == 2

MaxEntries == 2

MaxRows == 5

MaxLayoutStages == 3

MaxPortions == 2

MaxProgressStages == 3

Statuses == {"completed", "in_progress", "planned", "delayed"}

D_2024_01_01 == <<"2", "0", "2", "4", "-", "0", "1", "-", "0", "1">>
D_2024_01_05 == <<"2", "0", "2", "4", "-", "0", "1", "-", "0", "5">>
D_2024_01_10 == <<"2", "0", "2", "4", "-", "0", "1", "-", "1", "0">>
D_2024_01_14 == <<"2", "0", "2", "4", "-", "0", "1", "-", "1", "4">>
D_2024_01_15 == <<"2", "0", "2", "4", "-", "0", "1", "-", "1", "5">>
D_2024_02_30 == <<"2", "0", "2", "4", "-", "0", "2", "-", "3", "0">>
D_2024_09_30 == <<"2", "0", "2", "4", "-", "0", "9", "-", "3", "0">>
D_2024_9_30  == <<"2", "0", "2", "4", "-", "9", "-", "3", "0">>
D_2024_10_01 == <<"2", "0", "2", "4", "-", "1", "0", "-", "0", "1">>
D_2024_10_1  == <<"2", "0", "2", "4", "-", "1", "0", "-", "1">>
D_2024_10_02 == <<"2", "0", "2", "4", "-", "1", "0", "-", "0", "2">>
D_2024_10_03 == <<"2", "0", "2", "4", "-", "1", "0", "-", "0", "3">>

StrEntry(k) == [key |-> k, kind |-> "str", n |-> 0]

DictEntry(k, n) == [key |-> k, kind |-> "dict", n |-> n]

\* number of portions of the entries before the i-th
RECURSIVE SlotsBefore(_, _)
SlotsBefore(shape, i) ==
    IF i <= 1 THEN 0 ELSE SlotsBefore(shape, i - 1) + shape[i - 1].n

NSlots(shape) == SlotsBefore(shape, Len(shape) + 1)

\* sequences over 1..n x Pool of length at most max whose first components
\* do not decrease: what is placed where, in declaration order
Placements(n, Pool, max) ==
    {s \in SeqsUpTo((1..n) \X Pool, max) :
        \A a \in 1..Len(s) : \A b \in a..Len(s) : s[a][1] <= s[b][1]}

\* the positions of a placement that are at slot q, and what is there
At(placed, q) == {f \in 1..Len(placed) : placed[f][1] = q}

FirstAt(placed, q) == CHOOSE f \in At(placed, q) : \A z \in At(placed, q) : f <= z

\* the milestones of the stage placed f-th: those of its own, then those
\* placed in it
BuildMilestones(own, ms, f) ==
    LET all == own \o [k \in 1..Cardinality(At(ms, f)) |-> ms[FirstAt(ms, f) + k - 1][2]]
    IN  [k \in 1..Len(all) |->
            [name |-> "M" \o ToString(k), date |-> all[k].date, status |-> all[k].status]]

BuildStages(st, ms, q) ==
    [g \in 1..Cardinality(At(st, q)) |->
        LET f == FirstAt(st, q) + g - 1
        IN  [name |-> "S" \o ToString(g), start |-> st[f][2].start,
             end |-> st[f][2].end, status |-> st[f][2].status,
             milestones |-> BuildMilestones(st[f][2].milestones, ms, f)]]

Build(shape, st, ms) ==
    [i \in 1..Len(shape) |->
        [key |-> shape[i].key,
         value |->
            [kind |-> shape[i].kind,
             portions |-> [j \in 1..shape[i].n |->
                [key |-> "P" \o ToString(j),
                 stages |-> BuildStages(st, ms, SlotsBefore(shape, i) + j)]]]]]

\* the datasets of the given shapes with at most maxStages stages of the pool
Datasets(Shapes, StagePool, maxStages) ==
    UNION {{Build(shape, st, <<>>) :
               st \in Placements(NSlots(shape), StagePool, maxStages)} :
           shape \in Shapes}

TwoStations == <<StrEntry("$schema"), DictEntry("A", 2), DictEntry("B", 1)>>

OneMilestone == <<[date |-> D_2024_01_05, status |-> "planned"]>>

\* stages of every status, of durations 9, 9 and 13 days, in two stations
StageDatasets(maxStages) ==
    Datasets({TwoStations},
             [start : {D_2024_01_01}, end : {D_2024_01_10, D_2024_01_14},
              status : Statuses, milestones : {<<>>}]
             \cup [start : {D_2024_01_05}, end : {D_2024_01_14},
                   status : Statuses, milestones : {<<>>}],
             maxStages)

\* milestones of every date, written with and without zero padding, placed
\* in four stages of two stations
MilestoneDatasets(maxMilestones) ==
    LET stage == [start |-> D_2024_01_01, end |-> D_2024_01_10, status |-> "planned",
                  milestones |-> <<>>]
    IN  {Build(TwoStations, <<<<1, stage>>, <<1, stage>>, <<2, stage>>, <<3, stage>>>>, ms) :
            ms \in Placements(4, [date : {D_2024_09_30, D_2024_9_30, D_2024_10_01,
                                          D_2024_10_1, D_2024_10_02, D_2024_10_03},
                                  status : {"planned"}], maxMilestones)}

\* every choice of at most maxEntries top-level keys, each a string or a
\* mapping of no portion or of one portion of one stage
KeyShapes(maxEntries) ==
    LET Entries == {StrEntry(k) : k \in {"$schema", "$id", "A"}}
                   \cup {DictEntry(k, n) : k \in {"$schema", "$id", "A"}, n \in 0..1}
    IN  {s \in SeqsUpTo(Entries, maxEntries) :
            \A a, b \in 1..Len(s) : a # b => s[a].key # s[b].key}

KeyDatasets(maxEntries) ==
    {Build(shape, [q \in 1..NSlots(shape) |-> <<q, stage>>], <<>>) :
        shape \in KeyShapes(maxEntries),
        stage \in [start : {D_2024_01_01}, end : {D_2024_01_10},
                   status : {"completed", "delayed"}, milestones : {OneMilestone}]}

\* every layout of at most maxRows labelled rows (stations and portions)
\* and at most maxStages stages, each a completed stage without
\* milestones or a planned stage with one
StationKey(i) == <<"A", "B", "C", "D", "E", "F", "G", "H">>[i]

LayoutShapes(maxRows) ==
    UNION {{[i \in 1..k |-> DictEntry(StationKey(i), ns[i])] :
               ns \in {f \in [1..k -> 0..(maxRows - k)] :
                          k + SumSeq(f) <= maxRows}} : k \in 0..maxRows}

LayoutDatasets(maxRows, maxStages) ==
    Datasets(LayoutShapes(maxRows),
             {[start |-> D_2024_01_01, end |-> D_2024_01_10, status |-> "completed",
               milestones |-> <<>>],
              [start |-> D_2024_01_05, end |-> D_2024_01_14, status |-> "planned",
               milestones |-> OneMilestone]},
             maxStages)

\* one station of at most maxPortions portions and maxStages stages
\* of every status
ProgressDatasets(maxPortions, maxStages) ==
    Datasets({<<StrEntry("$schema"), DictEntry("A", n)>> : n \in 0..maxPortions},
             [start : {D_2024_01_01}, end : {D_2024_01_10}, status : Statuses,
              milestones : {<<>>}],
             maxStages)

\* the datasets of a family; a family is built when a specification starts
\* from it
Family(name) ==
    CASE name = "stages"     -> StageDatasets(MaxStages)
      [] name = "milestones" -> MilestoneDatasets(MaxMilestones)
      [] name = "keys"       -> KeyDatasets(MaxEntries)
      [] name = "layout"     -> LayoutDatasets(MaxRows, MaxLayoutStages)
      [] name = "progress"   -> ProgressDatasets(MaxPortions, MaxProgressStages)

(***************************************************************************)
(* The arguments the callers pass, and the clock readings                  *)
(***************************************************************************)
StationArgs == {"$schema", "$id", "A", "B", "Z"}

RangeStartArgs == {D_2024_9_30, D_2024_10_01, D_2024_02_30}

RangeEndArgs == {D_2024_9_30, D_2024_10_01, D_2024_10_02}

ReferenceArgs == {D_2024_01_10, D_2024_01_14, D_2024_01_15, D_2024_02_30}

\* datetime.now(): midnight and 15:00 of 2024-01-10, 09:30 of 2024-01-15
Clock ==
    {[date |-> ToOrdinal(2024, 1, 10), time |-> 0],
     [date |-> ToOrdinal(2024, 1, 10), time |-> 54000],
     [date |-> ToOrdinal(2024, 1, 15), time |-> 34200]}

(***************************************************************************)
(* The state machine: a caller holds the object and calls one method at a  *)
(* time; op, args, result and raised describe the call that has returned.  *)
(***************************************************************************)
Loaded(family) ==
    /\ data \in Family(family)
    /\ op = "none"
    /\ args = <<>>
    /\ result = <<>>
    /\ raised = ""

Call(name, a, outcome) ==
    /\ op = "none"
    /\ op' = name
    /\ args' = a
    /\ result' = outcome.value
    /\ raised' = outcome.raised
    /\ UNCHANGED data

GetAllPortions == Call("get_all_portions", <<>>, get_all_portions(data))

QueryStatusByStation ==
    \E station \in StationArgs :
        Call("query_status_by_station", [station |-> station],
             query_status_by_station(data, station))

QueryMilestonesByDateRange ==
    \E start_date \in RangeStartArgs, end_date \in RangeEndArgs :
        Call("query_milestones_by_date_range",
             [start_date |-> start_date, end_date |-> end_date],
             query_milestones_by_date_range(data, start_date, end_date))

\* the clock is read only when no reference date is passed
CheckDelays ==
    \E reference_date \in ReferenceArgs \cup {<<>>} :
        \E now \in IF reference_date = <<>> THEN Clock ELSE {<<>>} :
            Call("check_delays", [reference_date |-> reference_date, now |-> now],
                 check_delays(data, reference_date, now))

GetCriticalPath == Call("get_critical_path", <<>>, get_critical_path(data))

VisualizeRoadmap ==
    \E now \in Clock :
        Call("visualize_roadmap", [now |-> now], visualize_roadmap(data, now))

\* the caller is done with the value returned and may call again
Return ==
    /\ op # "none"
    /\ op' = "none"
    /\ args' = <<>>
    /\ result' = <<>>
    /\ raised' = ""
    /\ UNCHANGED data

Next ==
    \/ GetAllPortions
    \/ QueryStatusByStation
    \/ QueryMilestonesByDateRange
    \/ CheckDelays
    \/ GetCriticalPath
    \/ VisualizeRoadmap
    \/ Return

InitStages == Loaded("stages")

InitMilestones == Loaded("milestones")

InitKeys == Loaded("keys")

InitLayout == Loaded("layout")

InitProgress == Loaded("progress")

SpecStages == InitStages /\ [][Next]_vars

SpecMilestones == InitMilestones /\ [][Next]_vars

SpecKeys == InitKeys /\ [][Next]_vars

SpecLayout == InitLayout /\ [][Next]_vars

SpecProgress == InitProgress /\ [][Next]_vars

(***************************************************************************)
(* What the claims speak of: the stations the traversals visit, and the    *)
(* portions, stages and milestones in them, by position.                   *)
(***************************************************************************)
Stations == {i \in DOMAIN data : data[i].key # "$schema" /\ data[i].value.kind = "dict"}

PortionsOf(i) == data[i].value.portions

PortionPos == UNION {{<<i, j>> : j \in DOMAIN PortionsOf(i)} : i \in Stations}

StagePos ==
    UNION {{<<pp[1], pp[2], g>> : g \in DOMAIN PortionsOf(pp[1])[pp[2]].stages} :
           pp \in PortionPos}

StageAt(sp) == PortionsOf(sp[1])[sp[2]].stages[sp[3]]

MilestonePos ==
    UNION {{<<sp[1], sp[2], sp[3], k>> : k \in DOMAIN StageAt(sp).milestones} :
           sp \in StagePos}

MilestoneAt(mp) == StageAt(<<mp[1], mp[2], mp[3]>>).milestones[mp[4]]

\* row is the query row of the stage at sp / of the milestone at mp
RowOfStage(row, sp) ==
    /\ row.station = data[sp[1]].key
    /\ row.portion = PortionsOf(sp[1])[sp[2]].key
    /\ row.stage = StageAt(sp).name

RowOfMilestone(row, mp) ==
    RowOfStage(row, <<mp[1], mp[2], mp[3]>>) /\ row.milestone = MilestoneAt(mp).name

\* declaration order of positions: station, then portion, then stage, ...
RECURSIVE PosBefore(_, _)
PosBefore(a, b) ==
    IF a = <<>> \/ b = <<>> THEN FALSE
    ELSE Head(a) < Head(b) \/ (Head(a) = Head(b) /\ PosBefore(Tail(a), Tail(b)))

TimesIn(rows, Is(_, _), pos) == Cardinality({r \in DOMAIN rows : Is(rows[r], pos)})

Returned(name) == op = name /\ raised = ""

\* the calendar day, as an ordinal, that a date string of the dataset names
DayOf(s) == parse_date(s).date

(***************************************************************************)
(* C1: check_delays reports a stage if and only if its end is before the   *)
(* reference date and its status is not completed: a stage that ends on    *)
(* the reference date is not reported, a completed stage is not reported,  *)
(* and an overdue stage of any other status is reported exactly once.      *)
(* The reference date is the datetime the code compares with.              *)
(***************************************************************************)
ReferenceOf(a) ==
    IF a.reference_date = <<>> THEN a.now ELSE parse_date(a.reference_date)

C2_RangeInclusive ==
    Returned("query_milestones_by_date_range") =>
        /\ \A mp \in MilestonePos :
              TimesIn(result, RowOfMilestone, mp) =
                 IF /\ DayOf(args.start_date) <= DayOf(MilestoneAt(mp).date)
                    /\ DayOf(MilestoneAt(mp).date) <= DayOf(args.end_date)
                 THEN 1 ELSE 0
        /\ \A r \in DOMAIN result : \E mp \in MilestonePos : RowOfMilestone(result[r], mp)

\* a milestone dated exactly startDate is in, one dated the day before is out
C2_Witness ==
    /\ Returned("query_milestones_by_date_range")
    /\ args.start_date = D_2024_10_01
    /\ args.end_date = D_2024_10_02
    /\ \E mp \in MilestonePos :
          /\ MilestoneAt(mp).date = D_2024_10_01
          /\ TimesIn(result, RowOfMilestone, mp) = 1
    /\ \E mp \in MilestonePos :
          /\ MilestoneAt(mp).date = D_2024_09_30
          /\ TimesIn(result, RowOfMilestone, mp) = 0

\* a milestone dated exactly endDate is in, one dated the day after is out
C2_WitnessEnd ==
    /\ Returned("query_milestones_by_date_range")
    /\ args.end_date = D_2024_10_02
    /\ \E mp \in MilestonePos :
          /\ MilestoneAt(mp).date = D_2024_10_02
          /\ TimesIn(result, RowOfMilestone, mp) = 1
    /\ \E mp \in MilestonePos :
          /\ MilestoneAt(mp).date = D_2024_10_03
          /\ TimesIn(result, RowOfMilestone, mp) = 0

(***************************************************************************)
(* C3: a top-level key that is not data (it begins with the reserved       *)
(* marker "$", or its value is not a mapping) is skipped by every          *)
(* operation: no operation fails on it, it is no station of                *)
(* get_all_portions, it has no row in the milestone, delay, critical-path  *)
(* and layout outputs, and query_status_by_station on it is NotFound.      *)
(***************************************************************************)
ReservedKeys == {"$schema", "$id"}

NonData == {i \in DOMAIN data : data[i].key \in ReservedKeys \/ data[i].value.kind # "dict"}

NotFound(v) == DOMAIN v = {"error"}

\* C3: every operation skips every key that is not data
C3_NonDataKeysSkipped ==
    \A i \in NonData :
        /\ raised # "AttributeError"
        /\ Returned("get_all_portions") =>
              \A r \in DOMAIN result : result[r][1] # data[i].key
        /\ (Returned("query_status_by_station") /\ args.station = data[i].key) =>
              NotFound(result)
        /\ (\/ Returned("query_milestones_by_date_range")
            \/ Returned("check_delays")
            \/ Returned("get_critical_path")) =>
              \A r \in DOMAIN result : result[r].station # data[i].key
        /\ Returned("visualize_roadmap") =>
              /\ \A r \in DOMAIN result.gantt_data :
                    result.gantt_data[r].Station # data[i].key
              /\ \A r \in DOMAIN result.y_labels :
                    result.y_labels[r] # "[" \o data[i].key \o "]"

(***************************************************************************)
(* C4: query_status_by_station reports as overall progress the number of   *)
(* completed stages over the number of stages of all portions of the       *)
(* station (0 when there is none), and the portions' progress values       *)
(* weighted by their stage counts add up to it: the sum over the portions  *)
(* of progress x stage count equals overall progress x total stage count.  *)
(***************************************************************************)
StationOf(k) == CHOOSE i \in DOMAIN data : data[i].key = k

AllStagesOf(i) == {sp \in StagePos : sp[1] = i}

\* fraction a times n as a whole number (defined when the product is whole)
Times(a, n) == (a.num * n) \div a.den

IsWhole(a, n) == (a.num * n) % a.den = 0

PosOfStageRow(row) == CHOOSE sp \in StagePos : RowOfStage(row, sp)

\* C5: one row per stage, duration_days = end - start, descending, rows of
\* equal duration in traversal order
C5_CriticalPathDescendingStable ==
    Returned("get_critical_path") =>
        /\ Len(result) = Cardinality(StagePos)
        /\ \A sp \in StagePos : TimesIn(result, RowOfStage, sp) = 1
        /\ \A r \in DOMAIN result :
              /\ \E sp \in StagePos : RowOfStage(result[r], sp)
              /\ result[r].duration_days =
                    DayOf(StageAt(PosOfStageRow(result[r])).end)
                    - DayOf(StageAt(PosOfStageRow(result[r])).start)
        /\ \A a, b \in DOMAIN result :
              a < b =>
                 /\ result[a].duration_days >= result[b].duration_days
                 /\ result[a].duration_days = result[b].duration_days =>
                       PosBefore(PosOfStageRow(result[a]), PosOfStageRow(result[b]))

\* two stages of equal duration and different dates
C5_Witness ==
    /\ Returned("get_critical_path")
    /\ Len(result) = 2
    /\ result[1].duration_days = result[2].duration_days
    /\ result[1].start # result[2].start
    /\ result[1].station # result[2].station

(***************************************************************************)
(* C6: the result of the milestone range query is in ascending order of    *)
(* the milestones' calendar dates, and hits of the same date are in        *)
(* traversal order (station, portion, stage, milestone in declaration      *)
(* order), for every dataset whose date strings the parser accepts.        *)
(***************************************************************************)
PosOfMilestoneRow(row) == CHOOSE mp \in MilestonePos : RowOfMilestone(row, mp)

\* C6: hits ascending by calendar date, hits of one date in traversal order
C6_MilestonesAscendingByDateStable ==
    Returned("query_milestones_by_date_range") =>
        \A a, b \in DOMAIN result :
            a < b =>
               /\ DayOf(result[a].date) <= DayOf(result[b].date)
               /\ DayOf(result[a].date) = DayOf(result[b].date) =>
                     PosBefore(PosOfMilestoneRow(result[a]), PosOfMilestoneRow(result[b]))

(***************************************************************************)
(* C7: every record of check_delays, with the reference date passed or     *)
(* defaulted to now, has days_overdue = reference date - stage end in      *)
(* whole calendar days, and days_overdue > 0.                              *)
(***************************************************************************)
C7_DaysOverduePositive ==
    Returned("check_delays") =>
        \A r \in DOMAIN result :
            /\ result[r].days_overdue =
                  ReferenceOf(args).date - DayOf(result[r].planned_end)
            /\ result[r].days_overdue > 0

(***************************************************************************)
(* C8: visualize_roadmap assigns rows with one counter: a station header   *)
(* advances it by 1, a portion takes the row of the counter and advances   *)
(* it by 1, and half a row is added after the portions of a station.       *)
(* Every bar and marker of a portion carries that portion's row, distinct  *)
(* portions have distinct rows, no bar or marker carries the row of a      *)
(* station header, and there are (stations + portions) labelled rows.      *)
(* Rows are in half rows, as y_pos is.                                     *)
(***************************************************************************)
\* the counter when the header of station i is appended: every station
\* before it took 1 row, 1 row per portion and half a row
HeaderRow(i) ==
    SumSeq([h \in 1..(i - 1) |->
               IF h \in Stations THEN 2 + 2 * Len(PortionsOf(h)) + 1 ELSE 0])

PortionRow(pp) == HeaderRow(pp[1]) + 2 + 2 * (pp[2] - 1)

PortionNamed(station, portion) ==
    CHOOSE pp \in PortionPos :
        data[pp[1]].key = station /\ PortionsOf(pp[1])[pp[2]].key = portion

\* the (station, portion, row) of every bar and marker of the figure
Drawn(fig) ==
    {<<fig.gantt_data[r].Station, fig.gantt_data[r].Portion, fig.bars[r].y_center>> :
        r \in DOMAIN fig.gantt_data}
    \cup {<<fig.milestone_data[k].station, fig.milestone_data[k].portion,
            fig.milestones[1].y[k]>> : k \in DOMAIN fig.milestone_data}

\* C8: bars and markers carry their portion's row, portions have distinct
\* rows, none is a header's row, stations + portions rows are labelled
C8_OneRowPerPortion ==
    Returned("visualize_roadmap") =>
        /\ \A x \in Drawn(result) : x[3] = PortionRow(PortionNamed(x[1], x[2]))
        /\ \A x, y \in Drawn(result) : (x[1] # y[1] \/ x[2] # y[2]) => x[3] # y[3]
        /\ \A x \in Drawn(result) : \A i \in Stations : x[3] # HeaderRow(i)
        /\ Len(result.y_labels) = Cardinality(Stations) + Cardinality(PortionPos)
        /\ Len(result.bars) = Cardinality(StagePos)
        /\ Cardinality(MilestonePos) > 0 =>
              Len(result.milestones[1].y) = Cardinality(MilestonePos)

\* the two-station, three-portion layout with a bar in every portion
C8_Witness ==
    /\ Returned("visualize_roadmap")
    /\ Cardinality(Stations) = 2
    /\ Cardinality(PortionPos) = 3
    /\ {x[3] : x \in Drawn(result)} = {2, 4, 9}
    /\ result.milestone_data # <<>>

(***************************************************************************)
(* C9: on a dataset without stages every operation succeeds: the milestone *)
(* range, the delay detection and the critical path return the empty       *)
(* sequence, the station status has progress 0 for the station and for     *)
(* each portion, and the layout call completes; none raises.               *)
(***************************************************************************)
ValidArgs ==
    /\ op = "query_milestones_by_date_range" =>
          DateAccepted(args.start_date) /\ DateAccepted(args.end_date)
    /\ op = "check_delays" =>
          args.reference_date = <<>> \/ DateAccepted(args.reference_date)

\* C9: without stages no operation raises and the results are empty or 0
C9_ZeroStagesSucceed ==
    (StagePos = {} /\ op # "none" /\ ValidArgs) =>
        /\ raised = ""
        /\ op \in {"query_milestones_by_date_range", "check_delays",
                   "get_critical_path"} => result = <<>>
        /\ (op = "query_status_by_station" /\ ~NotFound(result)) =>
              /\ result.overall_progress.num = 0
              /\ \A j \in DOMAIN result.portions : result.portions[j].progress.num = 0

(***************************************************************************)
(* C10: the legend of the layout has one entry per distinct status among   *)
(* the stages, in first-seen (bar traversal) order, and after them a       *)
(* milestone entry, which is there for every dataset, also for one without *)
(* milestones.                                                             *)
(***************************************************************************)
RECURSIVE FirstSeen(_)
FirstSeen(s) ==
    IF s = <<>> THEN <<>>
    ELSE LET before == FirstSeen(SubSeq(s, 1, Len(s) - 1))
         IN  IF s[Len(s)] \in Range(before) THEN before ELSE before \o <<s[Len(s)]>>

\* C10: the legend is the distinct statuses in first-seen order, then the
\* milestone entry, for every dataset
C10_LegendStatusesAndMilestones ==
    Returned("visualize_roadmap") =>
        result.legend =
            FirstSeen([r \in DOMAIN result.gantt_data |-> result.gantt_data[r].Status])
            \o <<"Milestones">>

(***************************************************************************)
(* C11: in the layout the row label found at the vertical position of a    *)
(* bar or marker is the label of its own portion: the labels are placed at *)
(* the positions 1..len(y_labels) in the order they were appended, the     *)
(* position of every bar and marker is one of these, and the label there   *)
(* is the portion label recorded in the bar or marker.                     *)
(***************************************************************************)
\* the labels the axis shows at the position y (y in half rows, the tick
\* values in rows)
LabelsAt(fig, y) ==
    {fig.y_labels[n] : n \in {t \in DOMAIN fig.tickvals : 2 * fig.tickvals[t] = y}}

\* the (portion label, position) of every bar and marker of the figure
Placed(fig) ==
    {<<fig.bars[r].Task, fig.bars[r].y_center>> : r \in DOMAIN fig.bars}
    \cup {<<fig.milestone_data[k].task, fig.milestones[1].y[k]>> :
             k \in DOMAIN fig.milestone_data}

\* C11: the label at the position of every bar and marker is its portion's
C11_LabelAtPositionIsOwnPortion ==
    Returned("visualize_roadmap") =>
        \A x \in Placed(result) : LabelsAt(result, x[2]) = {x[1]}

====
